---------------------------- MODULE Spec2Model ----------------------------
(***************************************************************************)
(* bdep: build the workspace dependencies of a package in topological      *)
(* order, layer by layer, with a bounded number of parallel builds.        *)
(*                                                                         *)
(* The model follows src/unnamed/part_002 (core/graph.ts),                 *)
(* src/unnamed/part_001 (core/builder.ts), src/unnamed/part_005 (the       *)
(* command-line entrypoint), src/utils/mtime.ts and src/core/workspace.ts. *)
(* A JavaScript Map or Set is a sequence                                   *)
(* without duplicates wherever the code iterates it (iteration follows     *)
(* insertion order) and a set where the code only tests membership or      *)
(* takes its size.                                                         *)
(*                                                                         *)
(* Package names are the integers 1..NumNames.  The collected package map  *)
(* holds the names 1..n in this insertion order: every operator below      *)
(* uses a name only through the sequences and sets it occurs in, so any    *)
(* other map of n packages is this one with its names renamed.             *)
(***************************************************************************)
EXTENDS Integers, Sequences, FiniteSets, TLC

\* Number of package names of the workspace.
NumNames == 3

\* Largest value of the --parallel option.
MaxParallel == 2

\* Largest modification time (mtimeMs) of a file.
MaxTime == 3

Names == 1..NumNames

Range(s) == {s[i] : i \in 1..Len(s)}

VARIABLES
    packages,       \* Map<string, PackageInfo>: the names, in insertion order
    workspaceDeps,  \* PackageInfo.workspaceDeps of each package
    buildScript,    \* whether packageJson.scripts.build is set
    force,          \* options.force
    parallel,       \* options.parallel
    pc,             \* position of the entrypoint's control flow
    graph,          \* DependencyGraph: nodes, edges, reverseEdges
    sorted,         \* result array of topologicalSort
    inDegree,       \* inDegree map of topologicalSort when it ended
    error,          \* "none", or the error that was thrown
    errorNames,     \* names carried by the circular-dependency error
    layers,         \* result of getBuildLayers
    layerIdx,       \* buildAll: index i of the layer being built (from 1)
    items,          \* runWithConcurrency: items (the buildable packages)
    itemIdx,        \* runWithConcurrency: next item of the for loop
    executing,      \* runWithConcurrency: executing
    results,        \* runWithConcurrency: results
    status,         \* per package: state of its fn(item) call
    completed,      \* buildAll: completed
    unchangedCount, \* buildAll: unchangedCount
    needsResult,    \* per package: what needsBuild returned to buildPackage
    exitCode,       \* exit status of the process once pc = "exit"
    altPc,          \* position of a second caller of getBuildLayers
    altGraph,       \* the graph the second caller passes
    altSorted,      \* the ordering the second caller passes
    altLayers,      \* the layers the second caller receives
    probePc,        \* position of a caller of needsBuild
    files,          \* regular files under the package path: path -> mtimeMs
    distDir,        \* whether <pkgPath>/dist exists
    decision,       \* what needsBuild returned to that caller
    buildRuns,      \* per package: how often its build command was spawned
    envAtStart,     \* BDEP_RUNNING in the environment the process started in
    BDEP_RUNNING,   \* process.env.BDEP_RUNNING
    install,        \* options.install
    installed,      \* state of the install command
    collectPc,      \* position of a caller of collectDependencies
    allPackages,    \* registry: name -> workspaceDeps of the member
    currentName,    \* name of the package at cwd
    cwdDeps,        \* workspaceDeps of the package at cwd
    visited,        \* collectDependencies: visited
    collected,      \* collectDependencies: result, in insertion order
    stack,          \* collectRecursive: the names each open loop has left
    extractPc,      \* position of a caller of extractWorkspaceDependencies
    packageJson,    \* its argument: dependencies and devDependencies
    extracted       \* the array it returned

inputVars == <<packages, workspaceDeps, buildScript, force, parallel>>
graphVars == <<graph, sorted, inDegree, errorNames, layers>>
execVars  == <<layerIdx, items, itemIdx, executing, results, status,
               completed, unchangedCount, needsResult, buildRuns>>
orderVars == <<altPc, altGraph, altSorted, altLayers>>
probeVars == <<probePc, files, distDir, decision>>
entryVars == <<envAtStart, BDEP_RUNNING, install, installed>>
collectVars == <<collectPc, allPackages, currentName, cwdDeps, visited,
                 collected, stack>>
extractVars == <<extractPc, packageJson, extracted>>
sideVars  == <<entryVars, collectVars, extractVars>>
auxVars   == <<orderVars, probeVars, sideVars>>
vars == <<inputVars, pc, graphVars, error, execVars, exitCode, auxVars>>

-----------------------------------------------------------------------------
(* core/graph.ts *)

\* buildDependencyGraph without the test packages.has(dep).
buildDependencyGraphNoHas(pkgs, deps) ==
    [nodes |-> pkgs,
     edges |-> [name \in Range(pkgs) |-> deps[name]],
     reverseEdges |-> [dep \in Range(pkgs) |->
                   SelectSeq(pkgs, LAMBDA name : dep \in deps[name])]]

\* buildDependencyGraph that adds dep, not name, to the reverse edges of name.
buildDependencyGraphSwapped(pkgs, deps) ==
    [nodes |-> pkgs,
     edges |-> [name \in Range(pkgs) |->
                   {dep \in deps[name] : dep \in Range(pkgs)}],
     reverseEdges |-> [name \in Range(pkgs) |->
                   SelectSeq(pkgs, LAMBDA dep : dep \in deps[name])]]

\* buildDependencyGraph: edges[name] keeps the declared dependencies that are
\* keys of the package map; reverseEdges[dep] receives name in the order of
\* the outer loop over the packages.
buildDependencyGraph(pkgs, deps) ==
    [nodes |-> pkgs,
     edges |-> [name \in Range(pkgs) |->
                   {dep \in deps[name] : dep \in Range(pkgs)}],
     reverseEdges |-> [dep \in Range(pkgs) |->
                   SelectSeq(pkgs, LAMBDA name : dep \in deps[name])]]

\* The graph before buildDependencyGraph has run.
NoGraph == [nodes |-> <<>>, edges |-> <<>>, reverseEdges |-> <<>>]

\* topologicalSort, first loop: inDegree of a node is the size of its edge set.
InitialDegree(g) == [name \in Range(g.nodes) |-> Cardinality(g.edges[name])]

\* InitialQueue with the test degree <= 1 in place of degree === 0.
InitialQueueLoose(g, deg) == SelectSeq(g.nodes, LAMBDA name : deg[name] <= 1)

\* topologicalSort, second loop: the queue starts with the nodes of degree 0.
InitialQueue(g, deg) == SelectSeq(g.nodes, LAMBDA name : deg[name] = 0)

\* topologicalSort, inner for loop over reverseEdges.get(current): decrement
\* each dependent and enqueue it when its degree reaches zero.
RECURSIVE Relax(_, _, _)
Relax(dependents, deg, queue) ==
    IF dependents = <<>> THEN [deg |-> deg, queue |-> queue]
    ELSE LET dependent == Head(dependents)
             newDegree == deg[dependent] - 1
         IN  Relax(Tail(dependents),
                   [deg EXCEPT ![dependent] = newDegree],
                   IF newDegree = 0 THEN Append(queue, dependent) ELSE queue)

\* topologicalSort, while loop: shift the queue, push onto the result.
RECURSIVE KahnLoop(_, _, _, _)
KahnLoop(g, queue, result, deg) ==
    IF queue = <<>> THEN [result |-> result, deg |-> deg]
    ELSE LET current == Head(queue)
             r == Relax(g.reverseEdges[current], deg, Tail(queue))
         IN  KahnLoop(g, r.queue, Append(result, current), r.deg)

\* topologicalSort up to its length check.
Kahn(g) == KahnLoop(g, InitialQueue(g, InitialDegree(g)), <<>>, InitialDegree(g))

\* SortThrows without the length check.
SortNeverThrows(g, result) == FALSE

\* topologicalSort throws when the result is shorter than the node count.
SortThrows(g, result) == Len(result) # Len(g.nodes)

\* Remaining that names only the first node that is not in the result.
RemainingFirst(g, result) ==
    SubSeq(SelectSeq(g.nodes, LAMBDA n : n \notin Range(result)), 1, 1)

\* Remaining without the filter on result.includes.
RemainingAll(g, result) == g.nodes

\* The names of the circular-dependency error.
Remaining(g, result) == SelectSeq(g.nodes, LAMBDA n : n \notin Range(result))

\* ScanLayer that takes only the packages without dependencies.
ScanLayerLeaves(sortedPackages, g, assigned) ==
    SelectSeq(sortedPackages,
              LAMBDA pkg : pkg \notin assigned /\ g.edges[pkg] = {})

\* ScanLayer with deps.some in place of deps.every.
ScanLayerSome(sortedPackages, g, assigned) ==
    SelectSeq(sortedPackages,
              LAMBDA pkg : /\ pkg \notin assigned
                           /\ \/ g.edges[pkg] = {}
                              \/ g.edges[pkg] \cap assigned # {})

\* ScanLayer without the skip of the packages already assigned.
ScanLayerNoSkip(sortedPackages, g, assigned) ==
    SelectSeq(sortedPackages, LAMBDA pkg : g.edges[pkg] \subseteq assigned)

\* ScanLayer that leaves the for loop (break) at the first package whose
\* dependencies are not all assigned.
ScanLayerBreak(sortedPackages, g, assigned) ==
    LET blocked == {i \in 1..Len(sortedPackages) :
                       /\ sortedPackages[i] \notin assigned
                       /\ ~(g.edges[sortedPackages[i]] \subseteq assigned)}
        stop == IF blocked = {} THEN Len(sortedPackages) + 1
                ELSE CHOOSE i \in blocked : \A j \in blocked : i <= j
    IN  SelectSeq(SubSeq(sortedPackages, 1, stop - 1),
                  LAMBDA pkg : pkg \notin assigned)

\* getBuildLayers, one pass of the for loop over sortedPackages.
ScanLayer(sortedPackages, g, assigned) ==
    SelectSeq(sortedPackages,
              LAMBDA pkg : pkg \notin assigned /\ g.edges[pkg] \subseteq assigned)

\* getBuildLayers, while loop; ok = FALSE when a pass finds an empty layer.
RECURSIVE LayersLoop(_, _, _, _)
LayersLoop(sortedPackages, g, lays, assigned) ==
    IF ~(Cardinality(assigned) < Len(sortedPackages))
    THEN [ok |-> TRUE, layers |-> lays]
    ELSE LET layer == ScanLayer(sortedPackages, g, assigned)
         IN  IF Len(layer) = 0
             THEN [ok |-> FALSE, layers |-> lays]
             ELSE LayersLoop(sortedPackages, g, Append(lays, layer),
                             assigned \cup Range(layer))

\* getBuildLayers that gives every package of the ordering a layer of its own.
getBuildLayersChain(sortedPackages, g) ==
    [ok |-> TRUE,
     layers |-> [i \in 1..Len(sortedPackages) |-> <<sortedPackages[i]>>]]

getBuildLayers(sortedPackages, g) == LayersLoop(sortedPackages, g, <<>>, {})

-----------------------------------------------------------------------------
(* Inputs *)

\* The package maps of at most NumNames packages; a declared dependency may
\* name a package outside the map.
PackageMaps == {[i \in 1..n |-> i] : n \in 0..NumNames}

InitInputs ==
    /\ packages \in PackageMaps
    /\ workspaceDeps \in [Range(packages) -> SUBSET Names]
    /\ buildScript \in [Range(packages) -> BOOLEAN]
    /\ force \in BOOLEAN
    /\ parallel \in 1..MaxParallel

InitRestAt(start) ==
    /\ pc = start
    /\ graph = NoGraph
    /\ sorted = <<>>
    /\ inDegree = <<>>
    /\ error = "none"
    /\ errorNames = <<>>
    /\ layers = <<>>
    /\ layerIdx = 1
    /\ items = <<>>
    /\ itemIdx = 1
    /\ executing = <<>>
    /\ results = <<>>
    /\ status = [p \in Range(packages) |-> "pending"]
    /\ completed = 0
    /\ unchangedCount = 0
    /\ needsResult = [p \in Range(packages) |-> "none"]
    /\ buildRuns = [p \in Range(packages) |-> 0]
    /\ exitCode = 0

\* The state when collectDependencies has returned to the entrypoint.
InitRest == InitRestAt("buildDependencyGraph")

\* The second caller of getBuildLayers before it has an ordering.
InitAlt(start) ==
    /\ altPc = start
    /\ altGraph = NoGraph
    /\ altSorted = <<>>
    /\ altLayers = <<>>

\* No separate caller of needsBuild.
InitProbeOff ==
    /\ probePc = "off"
    /\ files = <<>>
    /\ distDir = FALSE
    /\ decision = "none"

\* An environment variable is unset (<<>>) or set to a string (<<s>>).
Unset == <<>>
EnvValue(str) == <<str>>

\* The entrypoint is past its check of BDEP_RUNNING and has set it; no
\* install was asked for.
InitEntryPast ==
    /\ envAtStart = Unset
    /\ BDEP_RUNNING = EnvValue("1")
    /\ install = FALSE
    /\ installed = "no"

\* No separate caller of collectDependencies.
InitCollectOff ==
    /\ collectPc = "off"
    /\ allPackages = <<>>
    /\ currentName = 0
    /\ cwdDeps = {}
    /\ visited = {}
    /\ collected = <<>>
    /\ stack = <<>>

\* No separate caller of extractWorkspaceDependencies.
InitExtractOff ==
    /\ extractPc = "off"
    /\ packageJson = [dependencies |-> <<>>, devDependencies |-> <<>>]
    /\ extracted = <<>>

InitSide == InitEntryPast /\ InitCollectOff /\ InitExtractOff

\* No second caller of getBuildLayers and no separate caller of needsBuild,
\* of collectDependencies or of extractWorkspaceDependencies.
InitAux == InitAlt("off") /\ InitProbeOff /\ InitSide

-----------------------------------------------------------------------------
(* The calls of the entrypoint into core/graph.ts *)

\* const graph = buildDependencyGraph(packages)
CallBuildDependencyGraph ==
    /\ pc = "buildDependencyGraph"
    /\ graph' = buildDependencyGraph(packages, workspaceDeps)
    /\ pc' = "topologicalSort"
    /\ UNCHANGED auxVars
    /\ UNCHANGED <<inputVars, sorted, inDegree, errorNames, layers, error,
                   execVars, exitCode>>

\* const sorted = topologicalSort(graph); a throw reaches the catch block of
\* the entrypoint, which exits with status 1.
CallTopologicalSort ==
    /\ pc = "topologicalSort"
    /\ LET k == Kahn(graph)
       IN  /\ inDegree' = k.deg
           /\ IF SortThrows(graph, k.result)
              THEN /\ error' = "circular"
                   /\ errorNames' = Remaining(graph, k.result)
                   /\ sorted' = sorted
                   /\ pc' = "exit"
                   /\ exitCode' = 1
              ELSE /\ sorted' = k.result
                   /\ pc' = "getBuildLayers"
                   /\ UNCHANGED <<error, errorNames, exitCode>>
    /\ UNCHANGED auxVars
    /\ UNCHANGED <<inputVars, graph, layers, execVars>>

\* const layers = getBuildLayers(sorted, graph)
CallGetBuildLayers ==
    /\ pc = "getBuildLayers"
    /\ LET l == getBuildLayers(sorted, graph)
       IN  IF l.ok
           THEN /\ layers' = l.layers
                /\ pc' = "buildAll"
                /\ UNCHANGED <<error, exitCode>>
           ELSE /\ error' = "noprogress"
                /\ pc' = "exit"
                /\ exitCode' = 1
                /\ UNCHANGED layers
    /\ UNCHANGED auxVars
    /\ UNCHANGED <<inputVars, graph, sorted, inDegree, errorNames, execVars>>

-----------------------------------------------------------------------------
(* core/builder.ts *)

\* A promise p of runWithConcurrency is named by its item.  It is fulfilled
\* when fn(item) returned a result and rejected when buildPackage threw.
Fulfilled(st, e) == st[e] \in {"built", "unchanged"}
Rejected(st, e)  == st[e] = "failed"
Settled(st, e)   == Fulfilled(st, e) \/ Rejected(st, e)

\* buildPackageStart that consults needsBuild also under force.
buildPackageStartCheck(forced) == "checking"

\* buildPackage up to its first await, for a package that has a build script:
\* with force the build command is spawned at once, otherwise needsBuild runs.
buildPackageStart(forced) == IF forced THEN "running" ELSE "checking"

\* buildPackageAfterCheck that spawns the build command whatever needsBuild
\* answered.
buildPackageAfterCheckAlways(needs) == "running"

\* buildPackage after needsBuild: unchanged when no build is needed, else the
\* build command is spawned.
buildPackageAfterCheck(needs) == IF needs THEN "running" ELSE "unchanged"

\* await runCommand("bun run build", pkg.path): the build command of the
\* package is spawned when buildPackage goes on to it.
runCommand(runs, p, st) ==
    IF st = "running" THEN [runs EXCEPT ![p] = @ + 1] ELSE runs

\* if (executing.length >= limit)
AtLimit(ex, limit) == Len(ex) >= limit

\* Promise.race(executing): settles as the first settled promise of the array.
FirstSettled(ex, st) ==
    CHOOSE i \in 1..Len(ex) :
        /\ Settled(st, ex[i])
        /\ \A j \in 1..(i - 1) : ~Settled(st, ex[j])

\* PromiseRace that never settles.
PromiseRaceNever(ex, st) == "pending"

\* PromiseRace that is fulfilled by a rejected promise too.
PromiseRaceSettled(ex, st) ==
    IF \A i \in 1..Len(ex) : ~Settled(st, ex[i]) THEN "pending"
    ELSE "fulfilled"

PromiseRace(ex, st) ==
    IF \A i \in 1..Len(ex) : ~Settled(st, ex[i]) THEN "pending"
    ELSE IF Rejected(st, ex[FirstSettled(ex, st)]) THEN "rejected"
    ELSE "fulfilled"

\* The filter callback of executing.splice: resolved is set by a then
\* callback, which runs only after the filter callback has returned.
ResolvedInFilter(st, e) == FALSE

\* executing.splice(0, executing.length, ...executing.filter(...))
FilterExecuting(ex, st) == SelectSeq(ex, LAMBDA e : ~ResolvedInFilter(st, e))

\* PromiseAll that is fulfilled as soon as one promise is (Promise.any).
PromiseAllAny(ex, st) ==
    IF \E i \in 1..Len(ex) : Fulfilled(st, ex[i]) THEN "fulfilled"
    ELSE IF \E i \in 1..Len(ex) : Rejected(st, ex[i]) THEN "rejected"
    ELSE "pending"

\* PromiseAll that never rejects (Promise.allSettled).
PromiseAllSettled(ex, st) ==
    IF \A i \in 1..Len(ex) : Settled(st, ex[i]) THEN "fulfilled"
    ELSE "pending"

\* Promise.all(executing): rejected with the first rejection, fulfilled when
\* every promise is fulfilled.
PromiseAll(ex, st) ==
    IF \E i \in 1..Len(ex) : Rejected(st, ex[i]) THEN "rejected"
    ELSE IF \A i \in 1..Len(ex) : Fulfilled(st, ex[i]) THEN "fulfilled"
    ELSE "pending"

\* Buildable that lists every buildable package of the layer twice.
BuildableTwice(layer, script) ==
    SelectSeq(layer \o layer, LAMBDA p : script[p])

\* buildAll: the buildable packages of a layer, in layer order.
Buildable(layer, script) == SelectSeq(layer, LAMBDA p : script[p])

\* The main control flow can run: it is not suspended on a pending promise.
\* Completions of file-system probes and build commands are delivered by the
\* event loop only when it cannot.
MainRunnable ==
    \/ pc \in {"buildDependencyGraph", "topologicalSort", "getBuildLayers",
               "buildAll", "admit"}
    \/ pc = "race" /\ PromiseRace(executing, status) # "pending"
    \/ pc = "all" /\ PromiseAll(executing, status) # "pending"

\* The entrypoint builds the graph when some package was collected.
BuildGraphOfPackages ==
    /\ Len(packages) > 0
    /\ CallBuildDependencyGraph

\* The entrypoint returns early when no package was collected.
NoDependencies ==
    /\ pc = "buildDependencyGraph"
    /\ Len(packages) = 0
    /\ pc' = "exit"
    /\ exitCode' = 0
    /\ UNCHANGED auxVars
    /\ UNCHANGED <<inputVars, graphVars, error, execVars>>

\* buildAll, head of the for loop over the layers: return after the last
\* layer, skip a layer without buildable packages, else call
\* runWithConcurrency on the buildable packages.
BuildAllLayer ==
    /\ pc = "buildAll"
    /\ IF layerIdx > Len(layers)
       THEN /\ pc' = "exit"
            /\ exitCode' = 0
            /\ UNCHANGED <<layerIdx, items, itemIdx, executing, results>>
       ELSE LET buildable == Buildable(layers[layerIdx], buildScript)
            IN  IF Len(buildable) = 0
                THEN /\ layerIdx' = layerIdx + 1
                     /\ UNCHANGED <<pc, exitCode, items, itemIdx, executing,
                                    results>>
                ELSE /\ items' = buildable
                     /\ itemIdx' = 1
                     /\ executing' = <<>>
                     /\ results' = <<>>
                     /\ pc' = "admit"
                     /\ UNCHANGED <<layerIdx, exitCode>>
    /\ UNCHANGED <<auxVars, needsResult, buildRuns>>
    /\ UNCHANGED <<inputVars, graphVars, error, status, completed,
                   unchangedCount>>

\* runWithConcurrency, one iteration of the for loop: call fn(item), push its
\* promise, and await Promise.race when the limit is reached; after the last
\* item go on to Promise.all.
Admit ==
    /\ pc = "admit"
    /\ IF itemIdx > Len(items)
       THEN /\ pc' = "all"
            /\ UNCHANGED <<itemIdx, executing, status, buildRuns>>
       ELSE LET item == items[itemIdx]
                ex == Append(executing, item)
                st == buildPackageStart(force)
            IN  /\ status' = [status EXCEPT ![item] = st]
                /\ buildRuns' = runCommand(buildRuns, item, st)
                /\ executing' = ex
                /\ itemIdx' = itemIdx + 1
                /\ pc' = IF AtLimit(ex, parallel) THEN "race" ELSE "admit"
    /\ UNCHANGED <<auxVars, needsResult>>
    /\ UNCHANGED <<inputVars, graphVars, error, layerIdx, items, results,
                   completed, unchangedCount, exitCode>>

\* runWithConcurrency resumes from await Promise.race(executing): a rejection
\* is thrown up to the catch block of the entrypoint (process.exit(1)),
\* otherwise executing is filtered and the for loop goes on.
RaceResume ==
    /\ pc = "race"
    /\ PromiseRace(executing, status) # "pending"
    /\ IF PromiseRace(executing, status) = "rejected"
       THEN /\ error' = "build"
            /\ pc' = "exit"
            /\ exitCode' = 1
            /\ UNCHANGED executing
       ELSE /\ executing' = FilterExecuting(executing, status)
            /\ pc' = "admit"
            /\ UNCHANGED <<error, exitCode>>
    /\ UNCHANGED <<auxVars, needsResult, buildRuns>>
    /\ UNCHANGED <<inputVars, graphVars, layerIdx, items, itemIdx, results,
                   status, completed, unchangedCount>>

\* runWithConcurrency resumes from await Promise.all(executing): a rejection
\* is thrown up to the catch block of the entrypoint, otherwise buildAll goes
\* on to the next layer.
AllResume ==
    /\ pc = "all"
    /\ PromiseAll(executing, status) # "pending"
    /\ IF PromiseAll(executing, status) = "rejected"
       THEN /\ error' = "build"
            /\ pc' = "exit"
            /\ exitCode' = 1
            /\ UNCHANGED layerIdx
       ELSE /\ layerIdx' = layerIdx + 1
            /\ pc' = "buildAll"
            /\ UNCHANGED <<error, exitCode>>
    /\ UNCHANGED <<auxVars, needsResult, buildRuns>>
    /\ UNCHANGED <<inputVars, graphVars, items, itemIdx, executing, results,
                   status, completed, unchangedCount>>

\* needsBuild(pkg.path) settles for package p.  Not needed: buildPackage
\* returns "unchanged" and fn counts it; needed: the build command is spawned.
NeedsBuildSettles(p, needs) ==
    /\ pc \in {"race", "all"}
    /\ ~MainRunnable
    /\ status[p] = "checking"
    /\ status' = [status EXCEPT ![p] = buildPackageAfterCheck(needs)]
    /\ buildRuns' = runCommand(buildRuns, p, buildPackageAfterCheck(needs))
    /\ needsResult' = [needsResult EXCEPT
                         ![p] = IF needs THEN "stale" ELSE "fresh"]
    /\ IF needs
       THEN UNCHANGED <<completed, unchangedCount, results>>
       ELSE /\ completed' = completed + 1
            /\ unchangedCount' = unchangedCount + 1
            /\ results' = Append(results, [name |-> p, status |-> "unchanged"])
    /\ UNCHANGED auxVars
    /\ UNCHANGED <<inputVars, pc, graphVars, error, layerIdx, items, itemIdx,
                   executing, exitCode>>

\* BuildSucceeds without completed++.
BuildSucceedsUncounted(p) ==
    /\ pc \in {"race", "all"}
    /\ ~MainRunnable
    /\ status[p] = "running"
    /\ status' = [status EXCEPT ![p] = "built"]
    /\ results' = Append(results, [name |-> p, status |-> "built"])
    /\ UNCHANGED <<auxVars, needsResult, buildRuns>>
    /\ UNCHANGED <<inputVars, pc, graphVars, error, layerIdx, items, itemIdx,
                   executing, completed, unchangedCount, exitCode>>

\* The build command of package p exits with status zero.
BuildSucceeds(p) ==
    /\ pc \in {"race", "all"}
    /\ ~MainRunnable
    /\ status[p] = "running"
    /\ status' = [status EXCEPT ![p] = "built"]
    /\ completed' = completed + 1
    /\ results' = Append(results, [name |-> p, status |-> "built"])
    /\ UNCHANGED <<auxVars, needsResult, buildRuns>>
    /\ UNCHANGED <<inputVars, pc, graphVars, error, layerIdx, items, itemIdx,
                   executing, unchangedCount, exitCode>>

\* The build command of package p fails: buildPackage throws.
BuildFails(p) ==
    /\ pc \in {"race", "all"}
    /\ ~MainRunnable
    /\ status[p] = "running"
    /\ status' = [status EXCEPT ![p] = "failed"]
    /\ UNCHANGED <<auxVars, needsResult, buildRuns>>
    /\ UNCHANGED <<inputVars, pc, graphVars, error, layerIdx, items, itemIdx,
                   executing, results, completed, unchangedCount, exitCode>>

-----------------------------------------------------------------------------
(* Specifications *)

Init == InitInputs /\ InitRest /\ InitAux

MainStep ==
    \/ NoDependencies
    \/ BuildGraphOfPackages
    \/ CallTopologicalSort
    \/ CallGetBuildLayers
    \/ BuildAllLayer
    \/ Admit
    \/ RaceResume
    \/ AllResume

Event ==
    \E p \in Range(packages) :
        \/ \E needs \in BOOLEAN : NeedsBuildSettles(p, needs)
        \/ BuildSucceeds(p)
        \/ BuildFails(p)

Next == MainStep \/ Event

\* A run of the entrypoint.
Spec == Init /\ [][Next]_vars

\* The library functions of core/graph.ts applied to a package map.
GraphInit ==
    /\ packages \in PackageMaps
    /\ workspaceDeps \in [Range(packages) -> SUBSET Names]
    /\ buildScript = [p \in Range(packages) |-> TRUE]
    /\ force = FALSE
    /\ parallel = 1
    /\ InitRest
    /\ InitAux

GraphNext ==
    \/ CallBuildDependencyGraph
    \/ CallTopologicalSort
    \/ CallGetBuildLayers

GraphSpec == GraphInit /\ [][GraphNext]_vars

\* The arrangements of the entries of a sequence without duplicates.
Arrangements(seq) ==
    {o \in [1..Len(seq) -> Range(seq)] :
        \A i, j \in 1..Len(seq) : o[i] = o[j] => i = j}

\* The orderings of the nodes of g that a caller may pass to getBuildLayers:
\* every node once, after the nodes it depends on.
ValidOrderings(g) ==
    {o \in Arrangements(g.nodes) :
        \A i \in 1..Len(o) : g.edges[o[i]] \subseteq {o[j] : j \in 1..(i - 1)}}

\* A caller passes getBuildLayers an ordering of its own in place of the
\* result of topologicalSort.
OrderGiven ==
    /\ pc = "topologicalSort"
    /\ \E o \in ValidOrderings(graph) : sorted' = o
    /\ pc' = "getBuildLayers"
    /\ UNCHANGED auxVars
    /\ UNCHANGED <<inputVars, graph, inDegree, errorNames, layers, error,
                   execVars, exitCode>>

\* The second caller takes the same graph and any valid ordering of it.
AltOrderGiven ==
    /\ altPc = "order"
    /\ pc # "buildDependencyGraph"
    /\ \E o \in ValidOrderings(graph) : altSorted' = o
    /\ altGraph' = graph
    /\ altPc' = "getBuildLayers"
    /\ UNCHANGED <<altLayers, probeVars, sideVars>>
    /\ UNCHANGED <<inputVars, pc, graphVars, error, execVars, exitCode>>

\* The second caller holds the same packages in a map of another insertion
\* order and runs buildDependencyGraph and topologicalSort on it.
AltOrderOfMap ==
    /\ altPc = "order"
    /\ \E m \in Arrangements(packages) :
          LET g == buildDependencyGraph(m, workspaceDeps)
              k == Kahn(g)
          IN  /\ ~SortThrows(g, k.result)
              /\ altGraph' = g
              /\ altSorted' = k.result
    /\ altPc' = "getBuildLayers"
    /\ UNCHANGED <<altLayers, probeVars, sideVars>>
    /\ UNCHANGED <<inputVars, pc, graphVars, error, execVars, exitCode>>

\* The second caller calls getBuildLayers(altSorted, altGraph).
AltGetBuildLayers ==
    /\ altPc = "getBuildLayers"
    /\ LET l == getBuildLayers(altSorted, altGraph)
       IN  IF l.ok
           THEN altLayers' = l.layers /\ altPc' = "done"
           ELSE altLayers' = altLayers /\ altPc' = "error"
    /\ UNCHANGED <<altGraph, altSorted, probeVars, sideVars>>
    /\ UNCHANGED <<inputVars, pc, graphVars, error, execVars, exitCode>>

\* Two callers of getBuildLayers on the same packages.
OrderInit ==
    /\ packages \in PackageMaps
    /\ workspaceDeps \in [Range(packages) -> SUBSET Names]
    /\ buildScript = [p \in Range(packages) |-> TRUE]
    /\ force = FALSE
    /\ parallel = 1
    /\ InitRest
    /\ InitAlt("order")
    /\ InitProbeOff
    /\ InitSide

OrderNext ==
    \/ CallBuildDependencyGraph
    \/ CallTopologicalSort
    \/ OrderGiven
    \/ CallGetBuildLayers
    \/ AltOrderGiven
    \/ AltOrderOfMap
    \/ AltGetBuildLayers

OrderSpec == OrderInit /\ [][OrderNext]_vars

\* The values BDEP_RUNNING may have in the environment of a new process:
\* unset, set to the empty string, or "1" as a running bdep has set it.
EnvValues == {Unset, EnvValue(""), EnvValue("1")}

\* if (process.env.BDEP_RUNNING): a set, non-empty string.
Truthy(v) == v # Unset /\ v[1] # ""

\* exec(command, { cwd, maxBuffer }) passes no env: a spawned command starts
\* in the environment of the process as it is at that time.
execEnv == BDEP_RUNNING

\* action without the check of BDEP_RUNNING.
actionNoCheck ==
    /\ pc = "action"
    /\ BDEP_RUNNING' = EnvValue("1")
    /\ pc' = IF install THEN "install" ELSE "collectDependencies"
    /\ installed' = IF install THEN "running" ELSE installed
    /\ UNCHANGED <<envAtStart, install, exitCode>>
    /\ UNCHANGED <<orderVars, probeVars, collectVars, extractVars>>
    /\ UNCHANGED <<inputVars, graphVars, error, execVars>>

\* The entrypoint from its first line: return when BDEP_RUNNING is set,
\* else set it and go on to the install command (with --install) or to
\* collectDependencies.
action ==
    /\ pc = "action"
    /\ IF Truthy(BDEP_RUNNING)
       THEN /\ pc' = "exit"
            /\ exitCode' = 0
            /\ UNCHANGED <<BDEP_RUNNING, installed>>
       ELSE /\ BDEP_RUNNING' = EnvValue("1")
            /\ pc' = IF install THEN "install" ELSE "collectDependencies"
            /\ installed' = IF install THEN "running" ELSE installed
            /\ UNCHANGED exitCode
    /\ UNCHANGED <<envAtStart, install>>
    /\ UNCHANGED <<orderVars, probeVars, collectVars, extractVars>>
    /\ UNCHANGED <<inputVars, graphVars, error, execVars>>

\* await runInstall(pm, cwd) returns.
InstallSucceeds ==
    /\ pc = "install"
    /\ installed' = "done"
    /\ pc' = "collectDependencies"
    /\ UNCHANGED <<envAtStart, BDEP_RUNNING, install>>
    /\ UNCHANGED <<orderVars, probeVars, collectVars, extractVars>>
    /\ UNCHANGED <<inputVars, graphVars, error, execVars, exitCode>>

\* await runInstall(pm, cwd) throws: the catch block exits with status 1.
InstallFails ==
    /\ pc = "install"
    /\ installed' = "failed"
    /\ error' = "install"
    /\ pc' = "exit"
    /\ exitCode' = 1
    /\ UNCHANGED <<envAtStart, BDEP_RUNNING, install>>
    /\ UNCHANGED <<orderVars, probeVars, collectVars, extractVars>>
    /\ UNCHANGED <<inputVars, graphVars, execVars>>

\* const packages = await collectDependencies(cwd) returns the package map.
CallCollectDependencies ==
    /\ pc = "collectDependencies"
    /\ pc' = "buildDependencyGraph"
    /\ UNCHANGED auxVars
    /\ UNCHANGED <<inputVars, graphVars, error, execVars, exitCode>>

\* collectDependencies throws (no package.json can be read at cwd).
CollectDependenciesThrows ==
    /\ pc = "collectDependencies"
    /\ error' = "collect"
    /\ pc' = "exit"
    /\ exitCode' = 1
    /\ UNCHANGED auxVars
    /\ UNCHANGED <<inputVars, graphVars, execVars>>

\* A process started with any value of BDEP_RUNNING and any options.
EntryInit ==
    /\ InitInputs
    /\ InitRestAt("action")
    /\ InitAlt("off")
    /\ InitProbeOff
    /\ InitCollectOff
    /\ InitExtractOff
    /\ envAtStart \in EnvValues
    /\ BDEP_RUNNING = envAtStart
    /\ install \in BOOLEAN
    /\ installed = "no"

EntryNext ==
    \/ action
    \/ InstallSucceeds
    \/ InstallFails
    \/ CallCollectDependencies
    \/ CollectDependenciesThrows
    \/ Next

\* A run of the entrypoint from the start of the process.
EntrySpec == EntryInit /\ [][EntryNext]_vars

\* The arrays of node names a caller may pass as sortedPackages: any names
\* of the graph in any order, a name more than once too.
NameLists(g) ==
    UNION {[1..n -> Range(g.nodes)] : n \in 0..Len(g.nodes)}

\* A caller of the library passes getBuildLayers the graph, cyclic or not,
\* and any array of its node names.
AltNamesGiven ==
    /\ altPc = "names"
    /\ pc \in {"buildAll", "exit"}
    /\ \E o \in NameLists(graph) : altSorted' = o
    /\ altGraph' = graph
    /\ altPc' = "getBuildLayers"
    /\ UNCHANGED <<altLayers, probeVars, sideVars>>
    /\ UNCHANGED <<inputVars, pc, graphVars, error, execVars, exitCode>>

\* The entrypoint's calls into core/graph.ts, and a library caller of
\* getBuildLayers with an array of its own.
LayerInit ==
    /\ packages \in PackageMaps
    /\ workspaceDeps \in [Range(packages) -> SUBSET Names]
    /\ buildScript = [p \in Range(packages) |-> TRUE]
    /\ force = FALSE
    /\ parallel = 1
    /\ InitRest
    /\ InitAlt("names")
    /\ InitProbeOff
    /\ InitSide

LayerNext ==
    \/ CallBuildDependencyGraph
    \/ CallTopologicalSort
    \/ CallGetBuildLayers
    \/ AltNamesGiven
    \/ AltGetBuildLayers

LayerSpec == LayerInit /\ [][LayerNext]_vars

\* The main control flow is never postponed forever while it can run.
FairSpec == Spec /\ WF_vars(MainStep)

\* Moreover every file-system probe and every build command that was started
\* comes to an end.
LiveSpec == Spec /\ WF_vars(MainStep) /\ WF_vars(Event)

-----------------------------------------------------------------------------
(* Notions the properties are stated with, taken from the inputs *)

Pkgs == Range(packages)

\* The declared dependencies of p that are packages of the map.
InScopeDeps(p) == workspaceDeps[p] \cap Pkgs

\* Every package reachable from the set S along dependencies, S included.
RECURSIVE ReachFrom(_)
ReachFrom(S) ==
    LET N == S \cup UNION {InScopeDeps(x) : x \in S}
    IN  IF N = S THEN S ELSE ReachFrom(N)

\* The direct and transitive dependencies of p.
TransDeps(p) == ReachFrom(InScopeDeps(p))

Acyclic == \A p \in Pkgs : p \notin TransDeps(p)

Max(S) == CHOOSE x \in S : \A y \in S : y <= x
Min(S) == CHOOSE x \in S : \A y \in S : x <= y

\* Number of packages on the longest dependency chain that ends in p.
RECURSIVE Depth(_)
Depth(p) ==
    IF InScopeDeps(p) = {} THEN 1
    ELSE 1 + Max({Depth(d) : d \in InScopeDeps(p)})

LongestChain == IF Pkgs = {} THEN 0 ELSE Max({Depth(p) : p \in Pkgs})

\* The layers that hold p, and the index of p's layer counted from 0.
LayersOf(p) == {i \in 1..Len(layers) : p \in Range(layers[i])}
LayerIndex(p) == IF LayersOf(p) = {} THEN -1 ELSE Min(LayersOf(p)) - 1

SortDone   == pc \notin {"buildDependencyGraph", "topologicalSort"}
SortOk     == SortDone /\ error # "circular"
LayersDone == pc \notin {"buildDependencyGraph", "topologicalSort",
                         "getBuildLayers"} /\ error = "none"

Started(p)  == status[p] # "pending"
InFlight    == {p \in Pkgs : status[p] = "running"}
Unfinished  == {p \in Pkgs : status[p] \in {"checking", "running"}}
Failed      == {p \in Pkgs : status[p] = "failed"}

\* p is done with: its call has settled, or it has no build script and the
\* loop of buildAll is past its layer.
DoneWith(p) ==
    \/ buildScript[p] /\ Settled(status, p)
    \/ ~buildScript[p] /\ layerIdx > LayerIndex(p) + 1

-----------------------------------------------------------------------------
(* utils/mtime.ts *)

\* Modification times; 0 is the time stamp of the epoch.
Times == 0..MaxTime

\* The paths, relative to the package path, at which a regular file may be.
Paths ==
    {<<"package.json">>,
     <<"src", "index.ts">>,
     <<"src", "build", "gen.ts">>,
     <<"node_modules", "dep.js">>,
     <<"dist", "index.js">>,
     <<"dist", "chunk.js">>}

EXCLUDE_DIRS == {"node_modules", "dist", ".next", "build", ".git", "coverage"}

\* The value Infinity of getOldestMtime: above every modification time.
Infinity == MaxTime + 1

\* walkDir(dir, exclude): the files below dir reached without passing an
\* entry whose name is excluded (the test is made on every entry, directory
\* or file); a directory that cannot be read yields no file.
walkDir(fs, dir, exclude) ==
    {f \in DOMAIN fs :
        /\ Len(f) > Len(dir)
        /\ SubSeq(f, 1, Len(dir)) = dir
        /\ \A i \in (Len(dir) + 1)..Len(f) : f[i] \notin exclude}

\* getNewestMtime that keeps the smallest time (mtime < newest).
getNewestMtimeMin(fs, dir, exclude) ==
    LET fl == walkDir(fs, dir, exclude)
    IN  IF fl = {} THEN 0 ELSE Min({fs[f] : f \in fl})

\* getNewestMtime: 0 without files, else the largest time, from 0 upwards.
getNewestMtime(fs, dir, exclude) ==
    LET fl == walkDir(fs, dir, exclude)
    IN  IF fl = {} THEN 0 ELSE Max({0} \cup {fs[f] : f \in fl})

\* getOldestMtime without the two conversions to 0.
getOldestMtimeInf(fs, dir) ==
    LET fl == walkDir(fs, dir, {})
    IN  Min({Infinity} \cup {fs[f] : f \in fl})

\* getOldestMtime: 0 without files, else the smallest time, from Infinity
\* downwards, and 0 when that is still Infinity.
getOldestMtime(fs, dir) ==
    LET fl == walkDir(fs, dir, {})
        oldest == Min({Infinity} \cup {fs[f] : f \in fl})
    IN  IF fl = {} THEN 0
        ELSE IF oldest = Infinity THEN 0 ELSE oldest

\* needsBuild that returns false when dist cannot be accessed.
needsBuildNoDistFresh(fs, distExists) ==
    IF ~distExists THEN FALSE
    ELSE LET newestSource == getNewestMtime(fs, <<>>, EXCLUDE_DIRS)
             oldestDist == getOldestMtime(fs, <<"dist">>)
         IN  IF oldestDist = 0 THEN TRUE
             ELSE IF newestSource = 0 THEN FALSE
             ELSE newestSource > oldestDist

\* needsBuild(pkgPath): TRUE is "needs build" (stale).
needsBuild(fs, distExists) ==
    IF ~distExists THEN TRUE
    ELSE LET newestSource == getNewestMtime(fs, <<>>, EXCLUDE_DIRS)
             oldestDist == getOldestMtime(fs, <<"dist">>)
         IN  IF oldestDist = 0 THEN TRUE
             ELSE IF newestSource = 0 THEN FALSE
             ELSE newestSource > oldestDist

\* The source files and the output files of the package.
SourceFiles == {f \in DOMAIN files : \A i \in 1..Len(f) : f[i] \notin EXCLUDE_DIRS}
DistFiles   == {f \in DOMAIN files : f[1] = "dist"}

\* A package directory: some of the paths hold a file; dist exists when a
\* file is below it, and may exist without any.
ProbeInit ==
    /\ packages = <<>>
    /\ workspaceDeps = <<>>
    /\ buildScript = <<>>
    /\ force = FALSE
    /\ parallel = 1
    /\ InitRest
    /\ InitAlt("off")
    /\ InitSide
    /\ probePc = "ready"
    /\ files \in UNION {[S -> Times] : S \in SUBSET Paths}
    /\ distDir \in BOOLEAN
    /\ DistFiles # {} => distDir
    /\ decision = "none"

\* const needs = await needsBuild(pkg.path)
CallNeedsBuild ==
    /\ probePc = "ready"
    /\ decision' = IF needsBuild(files, distDir) THEN "stale" ELSE "fresh"
    /\ probePc' = "decided"
    /\ UNCHANGED <<files, distDir, orderVars, sideVars>>
    /\ UNCHANGED <<inputVars, pc, graphVars, error, execVars, exitCode>>

\* After a decision "fresh" on a package with output files, a source file f
\* is touched: its modification time becomes t, later than every output file.
TouchSource(f, t) ==
    /\ probePc = "decided"
    /\ decision = "fresh"
    /\ DistFiles # {}
    /\ f \in SourceFiles
    /\ \A d \in DistFiles : t > files[d]
    /\ files' = [files EXCEPT ![f] = t]
    /\ probePc' = "touched"
    /\ UNCHANGED <<distDir, decision, orderVars, sideVars>>
    /\ UNCHANGED <<inputVars, pc, graphVars, error, execVars, exitCode>>

\* The next call of needsBuild on the package.
CallNeedsBuildAgain ==
    /\ probePc = "touched"
    /\ decision' = IF needsBuild(files, distDir) THEN "stale" ELSE "fresh"
    /\ probePc' = "again"
    /\ UNCHANGED <<files, distDir, orderVars, sideVars>>
    /\ UNCHANGED <<inputVars, pc, graphVars, error, execVars, exitCode>>

ProbeNext ==
    \/ CallNeedsBuild
    \/ \E f \in Paths, t \in Times : TouchSource(f, t)
    \/ CallNeedsBuildAgain

\* needsBuild applied to a package directory.
ProbeSpec == ProbeInit /\ [][ProbeNext]_vars

-----------------------------------------------------------------------------
(* core/workspace.ts: collectDependencies *)

\* A name for the package at cwd that no package of the workspace declares
\* and the registry does not hold.
Outsider == 0

\* collectRecursive that does not go on to the dependencies of the package.
collectRecursiveDirect(all, vis, res, depName) ==
    IF depName \in vis
    THEN [visited |-> vis, result |-> res, loop |-> {}]
    ELSE IF depName \notin DOMAIN all
    THEN [visited |-> vis \cup {depName}, result |-> res, loop |-> {}]
    ELSE [visited |-> vis \cup {depName},
          result |-> Append(res, depName),
          loop |-> {}]

\* collectRecursive(depName) up to its for loop: nothing for a visited name,
\* nothing but the visit for a name the registry does not hold, else the
\* package is set in result and the loop over its workspaceDeps opens.
collectRecursive(all, vis, res, depName) ==
    IF depName \in vis
    THEN [visited |-> vis, result |-> res, loop |-> {}]
    ELSE IF depName \notin DOMAIN all
    THEN [visited |-> vis \cup {depName}, result |-> res, loop |-> {}]
    ELSE [visited |-> vis \cup {depName},
          result |-> Append(res, depName),
          loop |-> all[depName]]

\* The for loops that have no name left return to their callers.
RECURSIVE ReturnFromLoops(_)
ReturnFromLoops(stk) ==
    IF stk # <<>> /\ stk[Len(stk)] = {}
    THEN ReturnFromLoops(SubSeq(stk, 1, Len(stk) - 1))
    ELSE stk

\* A workspace: the registry of its packages with their workspaceDeps, and
\* the package at cwd, which is a member of the registry or is not.
CollectInit ==
    /\ packages = <<>>
    /\ workspaceDeps = <<>>
    /\ buildScript = <<>>
    /\ force = FALSE
    /\ parallel = 1
    /\ InitRest
    /\ InitAlt("off")
    /\ InitProbeOff
    /\ InitEntryPast
    /\ InitExtractOff
    /\ collectPc = "start"
    /\ allPackages \in UNION {[D -> SUBSET Names] : D \in SUBSET Names}
    /\ currentName \in {Outsider} \cup Names
    /\ cwdDeps \in SUBSET Names
    /\ currentName \in DOMAIN allPackages => cwdDeps = allPackages[currentName]
    /\ visited = {}
    /\ collected = <<>>
    /\ stack = <<>>

\* CollectStart that marks the package at cwd as visited.
CollectStartMarked ==
    /\ collectPc = "start"
    /\ visited' = {currentName}
    /\ IF cwdDeps = {}
       THEN collectPc' = "done" /\ stack' = <<>>
       ELSE collectPc' = "walk" /\ stack' = <<cwdDeps>>
    /\ UNCHANGED <<allPackages, currentName, cwdDeps, collected>>
    /\ UNCHANGED <<orderVars, probeVars, entryVars, extractVars>>
    /\ UNCHANGED <<inputVars, pc, graphVars, error, execVars, exitCode>>

\* collectDependencies(cwd) up to its for loop: an empty map is returned
\* when the package at cwd declares no workspace dependency.
CollectStart ==
    /\ collectPc = "start"
    /\ IF cwdDeps = {}
       THEN collectPc' = "done" /\ stack' = <<>>
       ELSE collectPc' = "walk" /\ stack' = <<cwdDeps>>
    /\ UNCHANGED <<allPackages, currentName, cwdDeps, visited, collected>>
    /\ UNCHANGED <<orderVars, probeVars, entryVars, extractVars>>
    /\ UNCHANGED <<inputVars, pc, graphVars, error, execVars, exitCode>>

\* The innermost open for loop calls collectRecursive(depName) with one of
\* the names it has left (an array is walked in its own order; every order
\* is some choice of names here).  Loops without a name left return, and
\* collectDependencies returns when the outermost does.
CallCollectRecursive(depName) ==
    /\ collectPc = "walk"
    /\ stack # <<>>
    /\ depName \in stack[Len(stack)]
    /\ LET r == collectRecursive(allPackages, visited, collected, depName)
           rest == [stack EXCEPT ![Len(stack)] = @ \ {depName}]
           stk == ReturnFromLoops(IF r.loop = {} THEN rest
                                  ELSE Append(rest, r.loop))
       IN  /\ visited' = r.visited
           /\ collected' = r.result
           /\ stack' = stk
           /\ collectPc' = IF stk = <<>> THEN "done" ELSE "walk"
    /\ UNCHANGED <<allPackages, currentName, cwdDeps>>
    /\ UNCHANGED <<orderVars, probeVars, entryVars, extractVars>>
    /\ UNCHANGED <<inputVars, pc, graphVars, error, execVars, exitCode>>

CollectNext ==
    \/ CollectStart
    \/ \E depName \in Names : CallCollectRecursive(depName)

\* collectDependencies applied to a workspace.
CollectSpec == CollectInit /\ [][CollectNext]_vars

\* The call is synchronous between its awaits: it goes on while it can.
FairCollectSpec == CollectSpec /\ WF_vars(CollectNext)

\* The registry members that the names of S reach along workspaceDeps, the
\* members of S included.
RECURSIVE RegistryReach(_)
RegistryReach(S) ==
    LET M == S \cap DOMAIN allPackages
        N == M \cup UNION {allPackages[x] \cap DOMAIN allPackages : x \in M}
    IN  IF N = M THEN M ELSE RegistryReach(N)

\* The registry members reachable from the package at cwd through one or
\* more declarations.
Closure == RegistryReach(cwdDeps)

-----------------------------------------------------------------------------
(* core/workspace.ts: extractWorkspaceDependencies *)

\* A string is the sequence of its pieces.  The values a dependency entry of
\* a package.json may hold: "workspace:*", "^4.0.0", "file:../workspace:"
\* and a value that is no string.
Versions ==
    {[typeof |-> "string", value |-> <<"workspace:", "*">>],
     [typeof |-> "string", value |-> <<"^4.0.0">>],
     [typeof |-> "string", value |-> <<"file:", "../", "workspace:">>],
     [typeof |-> "object", value |-> <<>>]}

\* The objects that dependencies and devDependencies may be (a missing
\* field spreads like the empty object).
DependencyObjects == UNION {[D -> Versions] : D \in SUBSET Names}

\* The keys of an object in the order Object.entries yields them; the
\* keys of a spread follow this order object by object.
RECURSIVE KeysOf(_)
KeysOf(S) == IF S = {} THEN <<>> ELSE <<Min(S)>> \o KeysOf(S \ {Min(S)})

\* { ...a, ...b }: the entries of a, then those of b; an entry of b
\* replaces the value of a key that a has and keeps the place of that key.
Spread(a, b) ==
    [keys |-> KeysOf(DOMAIN a)
                \o SelectSeq(KeysOf(DOMAIN b), LAMBDA k : k \notin DOMAIN a),
     get |-> [k \in DOMAIN a \cup DOMAIN b |->
                 IF k \in DOMAIN b THEN b[k] ELSE a[k]]]

\* str.startsWith(prefix)
startsWith(str, prefix) ==
    /\ Len(str) >= Len(prefix)
    /\ SubSeq(str, 1, Len(prefix)) = prefix

\* typeof version === "string" && version.startsWith("workspace:")
IsWorkspaceVersion(version) ==
    /\ version.typeof = "string"
    /\ startsWith(version.value, <<"workspace:">>)

\* extractWorkspaceDependencies(packageJson)
extractWorkspaceDependencies(pj) ==
    LET allDeps == Spread(pj.dependencies, pj.devDependencies)
    IN  SelectSeq(allDeps.keys,
                  LAMBDA name : IsWorkspaceVersion(allDeps.get[name]))

ExtractInit ==
    /\ packages = <<>>
    /\ workspaceDeps = <<>>
    /\ buildScript = <<>>
    /\ force = FALSE
    /\ parallel = 1
    /\ InitRest
    /\ InitAlt("off")
    /\ InitProbeOff
    /\ InitEntryPast
    /\ InitCollectOff
    /\ extractPc = "ready"
    /\ packageJson \in [dependencies : DependencyObjects,
                        devDependencies : DependencyObjects]
    /\ extracted = <<>>

\* const workspaceDeps = extractWorkspaceDependencies(packageJson)
CallExtractWorkspaceDependencies ==
    /\ extractPc = "ready"
    /\ extracted' = extractWorkspaceDependencies(packageJson)
    /\ extractPc' = "done"
    /\ UNCHANGED packageJson
    /\ UNCHANGED <<orderVars, probeVars, entryVars, collectVars>>
    /\ UNCHANGED <<inputVars, pc, graphVars, error, execVars, exitCode>>

ExtractNext == CallExtractWorkspaceDependencies

\* extractWorkspaceDependencies applied to a package.json.
ExtractSpec == ExtractInit /\ [][ExtractNext]_vars

\* The names that obj declares with a version starting with "workspace:".
DeclaredWorkspace(obj) == {n \in DOMAIN obj : IsWorkspaceVersion(obj[n])}

-----------------------------------------------------------------------------
(* Properties *)

\* C1: at no point are more than K (= parallel) build invocations in flight.
\* Stated as the claim states it; the code breaks it.
C1_AtMostKInFlight == Cardinality(InFlight) <= parallel

\* C2: a package is started only when every package of every earlier layer
\* is done with, hence when all its transitive in-scope dependencies are.
C2_LayerBarrier ==
    \A p \in Pkgs : Started(p) =>
        /\ \A q \in Pkgs : LayerIndex(q) < LayerIndex(p) => DoneWith(q)
        /\ \A q \in TransDeps(p) : DoneWith(q)

C2_Witness ==
    \E p \in Pkgs : /\ status[p] = "running"
                    /\ \E q \in InScopeDeps(p) : status[q] = "built"
                    /\ \E q \in InScopeDeps(p) : ~buildScript[q]

\* C3: once an invocation of layer i has failed, no package of a later layer
\* is ever started, the run never ends successfully, and it ends in failure
\* (exit status 1).
C3_NoLaterLayer ==
    \A p \in Failed : \A q \in Pkgs :
        LayerIndex(q) > LayerIndex(p) => ~Started(q)

C3_FailureStops ==
    /\ [](Failed # {} => C3_NoLaterLayer /\ ~(pc = "exit" /\ exitCode = 0))
    /\ (Failed # {} ~> (pc = "exit" /\ exitCode = 1))

C3_Witness ==
    /\ pc = "exit" /\ exitCode = 1
    /\ \E p \in Failed : \E q \in Pkgs :
          LayerIndex(q) > LayerIndex(p) /\ buildScript[q]
    /\ \E p \in Pkgs : status[p] = "built"

\* C4: the run does not end after a failure while an admitted invocation of
\* the layer is unfinished.  Stated as the claim states it; the code breaks it.
C4_NoAbandonedInvocation ==
    (pc = "exit" /\ Failed # {}) => Unfinished = {}

\* C5: for an acyclic graph topologicalSort returns every node exactly once,
\* each node strictly after every node it depends on.
C5_TopologicalOrder ==
    (SortDone /\ Acyclic) =>
        /\ error # "circular"
        /\ Len(sorted) = Len(packages)
        /\ Range(sorted) = Pkgs
        /\ \A i \in 1..Len(sorted) : \A d \in InScopeDeps(sorted[i]) :
              \E j \in 1..(i - 1) : sorted[j] = d

C5_Witness ==
    /\ SortOk /\ Acyclic
    /\ Len(sorted) = NumNames
    /\ \E p \in Pkgs : Cardinality(InScopeDeps(p)) >= 2
    /\ sorted # packages

\* C6: for a graph with a cycle (a self-dependency included) topologicalSort
\* throws the circular-dependency error, which names exactly the nodes whose
\* count of unresolved dependencies never reached zero, each once.
C6_CycleError ==
    (SortDone /\ ~Acyclic) =>
        /\ error = "circular"
        /\ Range(errorNames) = {n \in Pkgs : inDegree[n] # 0}
        /\ Cardinality(Range(errorNames)) = Len(errorNames)
        /\ errorNames # <<>>

C6_Witness ==
    /\ error = "circular"
    /\ \E p \in Pkgs : p \in InScopeDeps(p) /\ p \in Range(errorNames)
    /\ \E p \in Pkgs : p \notin Range(errorNames)
    /\ \E p \in Range(errorNames) : p \notin TransDeps(p)

\* C7: when the package set has a dependency cycle no package is ever
\* started, and the run ends with exit status 1.
C7_CycleNoBuild ==
    ~Acyclic =>
        /\ \A p \in Pkgs : ~Started(p)
        /\ completed = 0
        /\ pc \in {"buildDependencyGraph", "topologicalSort", "exit"}
        /\ pc = "exit" => exitCode = 1

C7_Witness ==
    /\ pc = "exit" /\ error = "circular"
    /\ \E p \in Pkgs : /\ buildScript[p]
                       /\ TransDeps(p) = {}
                       /\ p \notin Range(errorNames)

\* C8: for an acyclic graph the layer index of P is 0 when P has no in-scope
\* dependency and else 1 + the largest layer index of its direct in-scope
\* dependencies; the number of layers is the length of the longest chain.
C8_LayerIndex ==
    (LayersDone /\ Acyclic) =>
        /\ \A p \in Pkgs :
              LayerIndex(p) =
                  IF InScopeDeps(p) = {} THEN 0
                  ELSE 1 + Max({LayerIndex(d) : d \in InScopeDeps(p)})
        /\ Len(layers) = LongestChain

C8_Witness ==
    /\ LayersDone /\ Acyclic
    /\ Len(layers) = 2
    /\ \E p \in Pkgs : Cardinality(InScopeDeps(p)) = 2 /\ LayerIndex(p) = 1

\* C9: for an acyclic graph the layers partition the node set: every package
\* is in exactly one layer, once; no layer is empty; layer 0 holds exactly
\* the packages without in-scope dependencies; no package, no layer.
C9_LayersPartition ==
    (LayersDone /\ Acyclic) =>
        /\ \A p \in Pkgs : Cardinality(LayersOf(p)) = 1
        /\ \A i \in 1..Len(layers) :
              /\ layers[i] # <<>>
              /\ Range(layers[i]) \subseteq Pkgs
              /\ Cardinality(Range(layers[i])) = Len(layers[i])
        /\ Len(layers) >= 1 =>
              Range(layers[1]) = {p \in Pkgs : InScopeDeps(p) = {}}
        /\ Pkgs = {} => layers = <<>>

C9_Witness ==
    /\ LayersDone /\ Acyclic
    /\ Len(layers) = 2
    /\ \E p \in Range(layers[1]) : workspaceDeps[p] # {}
    /\ \E p \in Range(layers[2]) : workspaceDeps[p] \subseteq Pkgs

\* C10: for an acyclic graph no two packages of one layer are related by a
\* direct or transitive dependency.
C10_LayerIndependent ==
    (LayersDone /\ Acyclic) =>
        \A i \in 1..Len(layers) : \A p, q \in Range(layers[i]) :
            q \notin TransDeps(p)

C10_Witness ==
    /\ LayersDone /\ Acyclic
    /\ \E i \in 1..Len(layers) :
          /\ Len(layers[i]) >= 2
          /\ \A p \in Range(layers[i]) : InScopeDeps(p) # {}

\* C11: any two valid topological orderings of the same package set, in
\* particular those sorted from package maps of different insertion orders,
\* give getBuildLayers the same number of layers and the same set of
\* packages in each layer.
C11_LayersDeterministic ==
    (LayersDone /\ altPc = "done") =>
        /\ Len(altLayers) = Len(layers)
        /\ \A i \in 1..Len(layers) : Range(altLayers[i]) = Range(layers[i])

C11_Witness ==
    /\ LayersDone /\ altPc = "done"
    /\ altSorted # sorted
    /\ altGraph # graph
    /\ Len(layers) = 2
    /\ altLayers # layers

\* C12: buildDependencyGraph makes name -> dep an edge exactly when dep is
\* declared by name and is a key of the package set; every package is a node
\* with an edge set and a reverse edge set; no package, empty graph.
C12_GraphEdges ==
    pc # "buildDependencyGraph" =>
        /\ graph.nodes = packages
        /\ DOMAIN graph.edges = Pkgs
        /\ DOMAIN graph.reverseEdges = Pkgs
        /\ \A name \in Pkgs : \A dep \in Names :
              dep \in graph.edges[name] <=>
                  (dep \in workspaceDeps[name] /\ dep \in Pkgs)
        /\ Pkgs = {} => graph = NoGraph

C12_Witness ==
    /\ pc # "buildDependencyGraph"
    /\ \E name \in Pkgs :
          /\ graph.edges[name] # {}
          /\ workspaceDeps[name] \ Pkgs # {}
    /\ \E name \in Pkgs : graph.edges[name] = {}

\* C13: edges and reverseEdges are transposes of each other and every name
\* in a value set of either is a key of nodes.
C13_Transpose ==
    pc # "buildDependencyGraph" =>
        /\ \A a, b \in Pkgs :
              b \in graph.edges[a] <=> a \in Range(graph.reverseEdges[b])
        /\ \A a \in Pkgs :
              /\ graph.edges[a] \subseteq Range(graph.nodes)
              /\ Range(graph.reverseEdges[a]) \subseteq Range(graph.nodes)

C13_Witness ==
    /\ pc # "buildDependencyGraph"
    /\ \E b \in Pkgs : Len(graph.reverseEdges[b]) = 2
    /\ \E a \in Pkgs : workspaceDeps[a] \ Pkgs # {}

\* C14: a package whose output location exists and that has no source file
\* is decided fresh, whatever the output location holds.  Stated as the claim
\* states it; the code breaks it.
C14_NoSourceFresh ==
    (probePc = "decided" /\ distDir /\ SourceFiles = {}) => decision = "fresh"

\* C15: with at least one output file and at least one source file the
\* decision is stale exactly when the newest source time is greater than the
\* oldest output time, for all time stamps.  Stated as the claim states it;
\* the code breaks it.
C15_StaleIffNewer ==
    (probePc = "decided" /\ DistFiles # {} /\ SourceFiles # {}) =>
        (decision = "stale" <=>
            Max({files[f] : f \in SourceFiles}) >
            Min({files[f] : f \in DistFiles}))

\* C16: an output location that exists without any file, for a package with
\* at least one source file, is decided stale.
C16_EmptyOutputStale ==
    (probePc = "decided" /\ distDir /\ DistFiles = {} /\ SourceFiles # {}) =>
        decision = "stale"

C16_Witness ==
    /\ probePc = "decided" /\ distDir /\ DistFiles = {}
    /\ Cardinality(SourceFiles) = 2
    /\ decision = "stale"

\* C17: a package whose output location does not exist is decided stale,
\* whatever its source files and their times, also without source files.
C17_NoOutputStale ==
    (probePc = "decided" /\ ~distDir) => decision = "stale"

C17_Witness ==
    /\ probePc = "decided" /\ ~distDir
    /\ SourceFiles = {}
    /\ DOMAIN files # {}
    /\ decision = "stale"

\* C18: after a decision fresh on a package with output files, touching one
\* source file, to a time later than every output file, makes the next
\* decision stale.
C18_TouchFlips ==
    probePc = "again" => decision = "stale"

C18_Witness ==
    /\ probePc = "again" /\ decision = "stale"
    /\ Cardinality(DistFiles) = 2
    /\ \E f \in SourceFiles : \A d \in DistFiles : files[f] < files[d]
    /\ SourceFiles # DOMAIN files \ DistFiles

\* C19: with force set, needsBuild is never consulted for any package, and
\* the outcome of a package is built or failed, never unchanged.
C19_ForceNeverChecks ==
    force =>
        /\ \A p \in Pkgs : /\ needsResult[p] = "none"
                           /\ status[p] \in {"pending", "running", "built",
                                             "failed"}
        /\ unchangedCount = 0
        /\ \A i \in 1..Len(results) : results[i].status = "built"

C19_Witness ==
    /\ force
    /\ \E p \in Pkgs : status[p] = "built"
    /\ \E p \in Pkgs : status[p] = "failed"
    /\ pc = "exit"

\* C20: the build command of a package is spawned only if the package has a
\* build script and force is set or needsBuild decided stale; a package
\* without a build script never has needsBuild consulted, and a package
\* decided fresh is unchanged and never built.
C20_BuildOnlyIfNeeded ==
    \A p \in Pkgs :
        /\ status[p] \in {"running", "built", "failed"}
              => buildScript[p] /\ (force \/ needsResult[p] = "stale")
        /\ ~buildScript[p] => status[p] = "pending" /\ needsResult[p] = "none"
        /\ needsResult[p] = "fresh" => status[p] = "unchanged"

C20_Witness ==
    /\ ~force
    /\ pc = "exit" /\ exitCode = 0
    /\ \E p \in Pkgs : ~buildScript[p]
    /\ \E p \in Pkgs : needsResult[p] = "fresh" /\ status[p] = "unchanged"
    /\ \E p \in Pkgs : needsResult[p] = "stale" /\ status[p] = "built"

\* The BuildOutcome the run has produced for p: the result buildPackage
\* returned or the failure it threw; a package without a build script is
\* never handed to buildPackage and counts as skipped-no-build-step.
Outcome(p) ==
    IF ~buildScript[p] THEN "skipped-no-build-step"
    ELSE IF status[p] = "built" THEN "built"
    ELSE IF status[p] = "unchanged" THEN "skipped-unchanged"
    ELSE IF status[p] = "failed" THEN "failed"
    ELSE "none"

\* C21: when a run ends, successful or failed, every package of the package
\* set has an outcome among built, skipped-no-build-step, skipped-unchanged
\* and failed.  Stated as the claim states it; the code breaks it.
C21_OutcomeForEach ==
    pc = "exit" => \A p \in Pkgs : Outcome(p) # "none"

\* C22: collectDependencies returns exactly the registry members reachable
\* from the package at cwd through one or more workspace dependencies, each
\* of them once, whatever the order of discovery; a declared name that is
\* no registry member is not in the result.
C22_CollectClosure ==
    collectPc = "done" =>
        /\ Range(collected) = Closure
        /\ Len(collected) = Cardinality(Range(collected))
        /\ Range(collected) \subseteq DOMAIN allPackages

\* A diamond below the package at cwd: d is collected once though both b
\* and c declare it.
C22_Witness ==
    /\ collectPc = "done"
    /\ \E b, c, d \in Range(collected) :
          /\ b # c /\ b # d /\ c # d
          /\ {b, c} \subseteq cwdDeps /\ d \notin cwdDeps
          /\ d \in allPackages[b] /\ d \in allPackages[c]
    /\ Range(collected) = Closure

\* C23: extractWorkspaceDependencies returns, each once, exactly the names
\* that dependencies or devDependencies declare with a version starting
\* with "workspace:".  Stated as the claim states it; the code breaks it.
C23_ExtractExactly ==
    extractPc = "done" =>
        /\ Len(extracted) = Cardinality(Range(extracted))
        /\ Range(extracted) = DeclaredWorkspace(packageJson.dependencies)
                        \cup DeclaredWorkspace(packageJson.devDependencies)

\* Some command has been spawned: the install command or a build command.
SomeSpawned == installed # "no" \/ \E p \in Pkgs : buildRuns[p] > 0

\* C24: a process that starts with BDEP_RUNNING set returns with status 0
\* from its first check: no install, no collectDependencies, no build.  A
\* process that starts without it sets it before it spawns the install
\* command or any build command and never clears it, so every command it
\* spawns, a nested bdep too, starts with BDEP_RUNNING set.
C24_NestingProtection ==
    /\ Truthy(envAtStart) =>
          /\ pc \in {"action", "exit"}
          /\ exitCode = 0 /\ error = "none"
          /\ ~SomeSpawned
          /\ graph = NoGraph
          /\ \A p \in Pkgs : status[p] = "pending"
    /\ SomeSpawned => Truthy(execEnv)
    /\ pc # "action" => Truthy(BDEP_RUNNING)

\* A nested bdep, asked to install and with a package to build, has returned.
C24_Witness ==
    /\ Truthy(envAtStart)
    /\ pc = "exit"
    /\ install
    /\ \E p \in Pkgs : buildScript[p]

\* C25: once a build invocation of the layer has failed, no package of that
\* layer that was not admitted before is admitted (handed to buildPackage).
C25_NoAdmissionAfterFailure ==
    [][\A p \in Pkgs :
          (status[p] = "pending" /\ status'[p] # "pending") => Failed = {}]_vars

\* A run has ended on a failure with a package of the same layer that was
\* never admitted.
C25_Witness ==
    /\ pc = "exit" /\ error = "build"
    /\ \E p, q \in Range(items) : status[p] = "failed" /\ status[q] = "pending"

\* buildAll has returned and every buildable package was built or found
\* unchanged.
AllProcessed ==
    /\ pc = "exit" /\ exitCode = 0
    /\ \A p \in Pkgs : buildScript[p] => status[p] \in {"built", "unchanged"}

\* C26: when no build command fails, the admission loop never stalls: a
\* package that waits at Promise.race for its admission is admitted, and
\* buildAll, once called, returns with every buildable package of every
\* layer built or found unchanged; this for every limit from 1 upwards.
C26_AdmissionNeverStalls ==
    /\ \A p \in Names :
          (pc = "race" /\ itemIdx <= Len(items) /\ items[itemIdx] = p)
              ~> (Failed # {} \/ (p \in Pkgs /\ status[p] # "pending"))
    /\ (pc = "buildAll") ~> (Failed # {} \/ AllProcessed)

\* With limit 1, a layer of two buildable packages and a later layer were
\* built to the end.
C26_Witness ==
    /\ AllProcessed
    /\ parallel = 1
    /\ Len(layers) >= 2
    /\ \E i \in 1..Len(layers) : Len(Buildable(layers[i], buildScript)) >= 2
    /\ \E p \in Pkgs : status[p] = "built"

\* buildAll: total, the number of packages with a build script.
Total == Cardinality({p \in Pkgs : buildScript[p]})

\* The buildable packages that have finished as built or unchanged.
Finished == {p \in Pkgs : buildScript[p] /\ Fulfilled(status, p)}

\* C27: completed is always between 0 and total, it is the number of
\* buildable packages that have finished as built or unchanged (one more
\* with each of them), and it is total when buildAll has returned.
C27_ProgressAccounting ==
    /\ completed \in 0..Total
    /\ completed = Cardinality(Finished)
    /\ (pc = "exit" /\ error = "none") => completed = Total

\* A successful run with a built package, an unchanged package and a package
\* without a build script.
C27_Witness ==
    /\ pc = "exit" /\ error = "none"
    /\ completed = 2 /\ Total = 2 /\ unchangedCount = 1
    /\ \E p \in Pkgs : ~buildScript[p]

\* The nodes of g that the nodes of S reach along one or more edges.
RECURSIVE EdgeReach(_, _)
EdgeReach(g, S) ==
    LET N == S \cup UNION {g.edges[x] : x \in S}
    IN  IF N = S THEN S ELSE EdgeReach(g, N)

DepsBelow(g, p) == EdgeReach(g, g.edges[p])

\* Not all names can be assigned a layer: a name depends on itself along a
\* cycle, or on a package that is not among the names, or occurs twice.
Inconsistent(names, g) ==
    \/ \E p \in Range(names) : p \in DepsBelow(g, p)
    \/ \E p \in Range(names) : ~(g.edges[p] \subseteq Range(names))
    \/ Len(names) # Cardinality(Range(names))

\* C28: when topologicalSort has returned an ordering, getBuildLayers called
\* with it and the same graph returns layers and does not throw "Could not
\* make progress"; a caller gets that error only for names that cannot all
\* be assigned (a cyclic or inconsistent input).
C28_NoProgressError ==
    /\ error # "noprogress"
    /\ (pc \in {"buildAll", "exit"} /\ error = "none") =>
           /\ Len(sorted) = Len(packages)
           /\ UNION {Range(layers[i]) : i \in 1..Len(layers)} = Pkgs
    /\ altPc = "error" => Inconsistent(altSorted, altGraph)

\* The entrypoint got two layers or more for an acyclic graph, and a caller
\* who left a dependency out of the names got the error.
C28_Witness ==
    /\ pc = "buildAll" /\ Len(layers) >= 2
    /\ altPc = "error"
    /\ Len(altSorted) = Cardinality(Range(altSorted))

\* C29: in a run, failed or not and for any limit, the build command of a
\* package is spawned at most once; when the run has ended without error it
\* was spawned once for every package with a build script that was forced
\* or decided stale, and for no other package.
C29_BuildAtMostOnce ==
    /\ \A p \in Pkgs : buildRuns[p] <= 1
    /\ (pc = "exit" /\ error = "none") =>
          \A p \in Pkgs :
              /\ buildScript[p] /\ ~force => needsResult[p] # "none"
              /\ buildRuns[p] =
                    IF buildScript[p] /\ (force \/ needsResult[p] = "stale")
                    THEN 1 ELSE 0

\* A successful run of two layers that built a stale package and left a
\* fresh one alone.
C29_Witness ==
    /\ pc = "exit" /\ error = "none"
    /\ Len(layers) >= 2
    /\ \E p, q \in Pkgs : /\ buildRuns[p] = 1 /\ needsResult[p] = "stale"
                          /\ buildRuns[q] = 0 /\ needsResult[q] = "fresh"

\* The packages that lie on a dependency cycle, and those that lie on one or
\* depend, directly or transitively, on one that does.
OnCycle == {p \in Pkgs : p \in TransDeps(p)}
CannotBeOrdered == {p \in Pkgs : ({p} \cup TransDeps(p)) \cap OnCycle # {}}

\* C30: the names of the circular-dependency error are exactly the packages
\* that lie on a cycle or depend on a package that does.
C30_ErrorNames ==
    error = "circular" => Range(errorNames) = CannotBeOrdered

\* The error names a package that is on no cycle but depends on one, and
\* leaves out a package that has nothing to do with the cycle.
C30_Witness ==
    /\ error = "circular"
    /\ Range(errorNames) \ OnCycle # {}
    /\ Pkgs \ Range(errorNames) # {}

\* C31: collectDependencies returns for every registry, with cyclic
\* workspace dependencies too; no name is set in the result more than once
\* and only visited names are; the result holds the package at cwd itself
\* exactly when that package is a registry member that reaches itself along
\* its workspace dependencies.
C31_CollectTerminates ==
    /\ <>(collectPc = "done")
    /\ [](/\ Len(collected) = Cardinality(Range(collected))
          /\ Range(collected) \subseteq visited
          /\ collectPc = "done" =>
                (currentName \in Range(collected)
                   <=> currentName \in DOMAIN allPackages
                       /\ currentName \in Closure))

\* The package at cwd lies on a cycle through another package and is in the
\* result.
C31_Witness ==
    /\ collectPc = "done"
    /\ currentName \in Range(collected)
    /\ currentName \notin cwdDeps
    /\ Len(collected) >= 2

=============================================================================
